---- MODULE Spec2Model ----
(***************************************************************************)
(* Model of the aggregation engine of open_prices (open_prices/analytics). *)
(*                                                                         *)
(* A DataFrame is a sequence of rows (records keyed by column name), a     *)
(* Series is a sequence of [label, value] pairs in index order.  Counts    *)
(* are integers; mean prices and price totals are exact rationals <<n, d>> *)
(* in lowest terms.  An optional argument (int | None) is <<>> for None    *)
(* and <<x>> for the value x.                                              *)
(***************************************************************************)
EXTENDS Integers, Sequences, FiniteSets

VARIABLES df, call, result, raised, dfTop

vars == <<df, call, result, raised, dfTop>>

----
\* Bounds of the explored inputs.

\* Largest number of rows of an input table.
MaxRows == 3
\* Largest price of a row (prices are 1..MaxPrice).
MaxPrice == 2
\* Largest top-n argument (n is None or 0..MaxN).
MaxN == 3
\* Largest minSales / minMonths thresholds (each is 0..its bound).
MaxMinSales == 3
MaxMinMonths == 2
\* Largest number of selected items of a trend request.
MaxSelected == 2
\* Longest table of the totals specification.
MaxTotalRows == 7

\* range(1, 13): the calendar of makeDfTrendData has 12 months.
MonthsInYear == 12

None == <<>>
Some(x) == <<x>>

\* Column values the explored tables are built from.
Currencies == {"EUR", "USD"}
Years == {2023, 2024}
Items == {"A", "B", "C"}
PricePers == {"KILOGRAM", "UNIT", "OTHER"}
Prices == 1..MaxPrice

\* Months the explored rows fall in (any of the calendar months 1..12).
MonthsUsed == {1, 2, 12}

\* Every label a dimension column can carry, in lexicographic order.
LabelOrder == <<"A", "B", "C", "X">>

----
\* float64 (IEEE 754 binary64) arithmetic on non-negative values, for the
\* means and totals.  A natural number of any size is a sequence of limbs,
\* least significant first, with no leading zero limb; a float is <<M, E>> with
\* value M * 2^E and M of exactly MantissaBits bits, or Zero.  Every operation
\* rounds its exact result to the nearest float, ties to even.

MantissaBits == 53

LimbBits == 14

Limb == 2 ^ LimbBits

RECURSIVE NatOf(_)
NatOf(k) == IF k = 0 THEN <<>> ELSE <<k % Limb>> \o NatOf(k \div Limb)

RECURSIVE MulSmall(_, _, _)
MulSmall(X, c, carry) ==
    IF X = <<>> THEN NatOf(carry)
    ELSE LET t == Head(X) * c + carry
         IN  <<t % Limb>> \o MulSmall(Tail(X), c, t \div Limb)

RECURSIVE AddNat(_, _, _)
AddNat(X, Y, carry) ==
    IF X = <<>> /\ Y = <<>> THEN NatOf(carry)
    ELSE LET x == IF X = <<>> THEN 0 ELSE Head(X)
             y == IF Y = <<>> THEN 0 ELSE Head(Y)
             t == x + y + carry
         IN  <<t % Limb>> \o AddNat(IF X = <<>> THEN X ELSE Tail(X),
                                    IF Y = <<>> THEN Y ELSE Tail(Y), t \div Limb)

\* X <= Y
RECURSIVE LeqNat(_, _)
LeqNat(X, Y) ==
    IF Len(X) # Len(Y) THEN Len(X) < Len(Y)
    ELSE IF X = <<>> THEN TRUE
    ELSE LET n == Len(X)
         IN  IF X[n] # Y[n] THEN X[n] < Y[n]
             ELSE LeqNat(SubSeq(X, 1, n - 1), SubSeq(Y, 1, n - 1))

\* Quotient and remainder of X by a small divisor.
RECURSIVE DivSmall(_, _)
DivSmall(X, n) ==
    IF X = <<>> THEN [q |-> <<>>, r |-> 0]
    ELSE LET upper == DivSmall(Tail(X), n)
             cur == upper.r * Limb + Head(X)
         IN  [q |-> IF upper.q = <<>> /\ cur \div n = 0 THEN <<>>
                    ELSE <<cur \div n>> \o upper.q,
              r |-> cur % n]

RECURSIVE BitLenSmall(_)
BitLenSmall(k) == IF k = 0 THEN 0 ELSE 1 + BitLenSmall(k \div 2)

BitLen(X) == IF X = <<>> THEN 0 ELSE LimbBits * (Len(X) - 1) + BitLenSmall(X[Len(X)])

RECURSIVE ShiftLeft(_, _)
ShiftLeft(X, s) ==
    IF X = <<>> \/ s = 0 THEN X
    ELSE IF s >= LimbBits THEN <<0>> \o ShiftLeft(X, s - LimbBits)
    ELSE MulSmall(X, 2 ^ s, 0)

\* X / 2^s rounded to the nearest integer, ties to even; sticky tells that
\* bits below X were already lost.
RECURSIVE RoundShift(_, _, _)
RoundShift(X, s, sticky) ==
    IF s > LimbBits THEN RoundShift(Tail(X), s - LimbBits, sticky \/ Head(X) # 0)
    ELSE LET d == DivSmall(X, 2 ^ s)
             half == 2 ^ (s - 1)
             odd == d.q # <<>> /\ Head(d.q) % 2 = 1
             up == d.r > half \/ (d.r = half /\ (sticky \/ odd))
         IN  IF up THEN AddNat(d.q, <<>>, 1) ELSE d.q

Zero == <<<<>>, 0>>

\* Not a number.
NaN == <<<<>>, 1>>

\* The float nearest to X * 2^E (plus something below one unit of X if sticky).
RoundToFloat(X, E, sticky) ==
    LET L == BitLen(X)
    IN  IF X = <<>> THEN Zero
        ELSE IF L <= MantissaBits
        THEN <<ShiftLeft(X, MantissaBits - L), E - (MantissaBits - L)>>
        ELSE LET s == L - MantissaBits
                 q == RoundShift(X, s, sticky)
             IN  IF BitLen(q) > MantissaBits
                 THEN <<DivSmall(q, 2).q, E + s + 1>>
                 ELSE <<q, E + s>>

FloatOfInt(k) == RoundToFloat(NatOf(k), 0, FALSE)

\* Bits computed by a division before rounding.
QuotientBits == MantissaBits + 2 * LimbBits

\* float(s) / float(n) for small non-negative integers.
FloatDivInt(s, n) ==
    LET d == DivSmall(ShiftLeft(NatOf(s), QuotientBits), n)
    IN  RoundToFloat(d.q, 0 - QuotientBits, d.r # 0)

\* float(c) * x
FloatMulInt(c, x) ==
    IF x = NaN THEN NaN
    ELSE IF c = 0 THEN Zero
    ELSE RoundToFloat(MulSmall(x[1], c, 0), x[2], FALSE)

\* x + y
FloatAdd(x, y) ==
    IF x = NaN \/ y = NaN THEN NaN
    ELSE IF x = Zero THEN y
    ELSE IF y = Zero THEN x
    ELSE LET lo == IF x[2] <= y[2] THEN x ELSE y
             hi == IF x[2] <= y[2] THEN y ELSE x
         IN  RoundToFloat(AddNat(ShiftLeft(hi[1], hi[2] - lo[2]), lo[1], 0), lo[2], FALSE)

RECURSIVE SumSeq(_)
SumSeq(s) == IF s = <<>> THEN 0 ELSE Head(s) + SumSeq(Tail(s))

Min(a, b) == IF a <= b THEN a ELSE b
Max(a, b) == IF a >= b THEN a ELSE b

----
\* pandas primitives used by the engine.

\* df[column] : the column as a sequence of values.
Column(rows, columnName) == [i \in DOMAIN rows |-> rows[i][columnName]]

\* Series.index
Index(series) == [i \in DOMAIN series |-> series[i].label]

\* Series.values
Values(series) == [i \in DOMAIN series |-> series[i].value]

\* Distinct values of a column in order of first appearance (hash-table order).
RECURSIVE UniqueInOrder(_)
UniqueInOrder(col) ==
    IF col = <<>> THEN <<>>
    ELSE LET rest == UniqueInOrder(SubSeq(col, 1, Len(col) - 1))
             last == col[Len(col)]
         IN  IF \E i \in DOMAIN rest : rest[i] = last THEN rest ELSE Append(rest, last)

CountOf(col, v) == Cardinality({i \in DOMAIN col : col[i] = v})

\* The insertion that puts an entry before the entries of equal value: ties
\* come out in reverse incoming order.
RECURSIVE InsertDescBeforeTies(_, _)
InsertDescBeforeTies(sorted, e) ==
    IF sorted = <<>> THEN <<e>>
    ELSE IF Head(sorted).value > e.value
         THEN <<Head(sorted)>> \o InsertDescBeforeTies(Tail(sorted), e)
         ELSE <<e>> \o sorted

\* Stable insertion of an entry into a series sorted by descending value:
\* the entry goes after every entry whose value is >= its own.
RECURSIVE InsertDesc(_, _)
InsertDesc(sorted, e) ==
    IF sorted = <<>> THEN <<e>>
    ELSE IF Head(sorted).value >= e.value
         THEN <<Head(sorted)>> \o InsertDesc(Tail(sorted), e)
         ELSE <<e>> \o sorted

\* Series.sort_values(ascending=False), ties kept in their incoming order.
RECURSIVE SortValuesDesc(_)
SortValuesDesc(series) ==
    IF series = <<>> THEN <<>>
    ELSE InsertDesc(SortValuesDesc(SubSeq(series, 1, Len(series) - 1)),
                    series[Len(series)])

\* value_counts(sort=False): the counts left in first-appearance order.
ValueCountsUnsorted(col) ==
    LET keys == UniqueInOrder(col)
    IN  [i \in DOMAIN keys |-> [label |-> keys[i], value |-> CountOf(col, keys[i])]]

\* Series.value_counts(): one entry per distinct value, descending by count.
ValueCounts(col) ==
    LET keys == UniqueInOrder(col)
    IN  SortValuesDesc([i \in DOMAIN keys |->
                          [label |-> keys[i], value |-> CountOf(col, keys[i])]])

\* head(n) that takes a missing n for 0 and keeps nothing.
SeriesHeadNoneAsZero(series, n) ==
    IF n = None THEN <<>>
    ELSE IF n[1] >= 0 THEN SubSeq(series, 1, Min(n[1], Len(series)))
    ELSE SubSeq(series, 1, Max(0, Len(series) + n[1]))

\* tail(n) in place of head(n): the last n entries.
SeriesHeadFromEnd(series, n) ==
    IF n = None THEN series
    ELSE SubSeq(series, Len(series) - Min(n[1], Len(series)) + 1, Len(series))

\* head(n) that keeps one entry too many.
SeriesHeadOneMore(series, n) ==
    IF n = None THEN series ELSE SubSeq(series, 1, Min(n[1] + 1, Len(series)))

\* Series.head(n): the first n entries; None keeps all, a negative n drops
\* the last -n entries.
SeriesHead(series, n) ==
    IF n = None THEN series
    ELSE IF n[1] >= 0 THEN SubSeq(series, 1, Min(n[1], Len(series)))
    ELSE SubSeq(series, 1, Max(0, Len(series) + n[1]))

\* Group keys of groupby(column): the distinct values, sorted.
GroupKeys(rows, columnName) ==
    SelectSeq(LabelOrder, LAMBDA k : \E i \in DOMAIN rows : rows[i][columnName] = k)

\* The sum of the prices of each group in place of their mean.
GroupBySumPrice(rows, columnName) ==
    LET keys == GroupKeys(rows, columnName)
    IN  [i \in DOMAIN keys |->
           LET grp == SelectSeq(rows, LAMBDA r : r[columnName] = keys[i])
           IN  [label |-> keys[i], value |-> FloatOfInt(SumSeq(Column(grp, "price")))]]

\* rows.groupby(columnName)["price"].mean()
GroupByMeanPrice(rows, columnName) ==
    LET keys == GroupKeys(rows, columnName)
    IN  [i \in DOMAIN keys |->
           LET grp == SelectSeq(rows, LAMBDA r : r[columnName] = keys[i])
           IN  [label |-> keys[i],
                value |-> FloatDivInt(SumSeq(Column(grp, "price")), Len(grp))]]

\* A selection of the labels of index the series has, instead of a reindex:
\* labels the series lacks are dropped and the series keeps its own order.
ReindexPresentOnly(series, index, fill) ==
    SelectSeq(series, LAMBDA e : \E i \in DOMAIN index : index[i] = e.label)

\* Series.reindex(index, fill_value=fill)
Reindex(series, index, fill) ==
    [i \in DOMAIN index |->
       [label |-> index[i],
        value |-> IF \E j \in DOMAIN series : series[j].label = index[i]
                  THEN series[CHOOSE j \in DOMAIN series : series[j].label = index[i]].value
                  ELSE fill]]

\* Value of a label in a series with unique labels.
At(series, v) == series[CHOOSE j \in DOMAIN series : series[j].label = v].value

Has(series, v) == \E j \in DOMAIN series : series[j].label = v

\* Index of the result of a binary operation on two series: the shared index
\* when both are identical, otherwise the sorted union of the labels.
AlignedIndex(a, b) ==
    IF Index(a) = Index(b) THEN Index(a)
    ELSE SelectSeq(LabelOrder, LAMBDA k : Has(a, k) \/ Has(b, k))

\* The product with the counts left out: the means themselves.
SeriesMulCountless(counts, means) ==
    LET idx == AlignedIndex(counts, means)
    IN  [i \in DOMAIN idx |->
           [label |-> idx[i],
            value |-> IF Has(counts, idx[i]) /\ Has(means, idx[i])
                      THEN At(means, idx[i])
                      ELSE NaN]]

\* Integer series * float series (label-aligned, NaN where a label is missing).
SeriesMul(counts, means) ==
    LET idx == AlignedIndex(counts, means)
    IN  [i \in DOMAIN idx |->
           [label |-> idx[i],
            value |-> IF Has(counts, idx[i]) /\ Has(means, idx[i])
                      THEN FloatMulInt(At(counts, idx[i]), At(means, idx[i]))
                      ELSE NaN]]

\* Float series + float series (label-aligned, NaN where a label is missing).
SeriesAdd(a, b) ==
    LET idx == AlignedIndex(a, b)
    IN  [i \in DOMAIN idx |->
           [label |-> idx[i],
            value |-> IF Has(a, idx[i]) /\ Has(b, idx[i])
                      THEN FloatAdd(At(a, idx[i]), At(b, idx[i]))
                      ELSE NaN]]

\* series.sum() of a float series: the values added one after the other.
RECURSIVE SeriesSum(_)
SeriesSum(series) ==
    IF series = <<>> THEN Zero
    ELSE FloatAdd(SeriesSum(SubSeq(series, 1, Len(series) - 1)),
                  series[Len(series)].value)

\* rows.groupby(column).size(), one entry per group key, in key order.
GroupBySize(rows, columnName, keys) ==
    [i \in DOMAIN keys |->
       [label |-> keys[i],
        value |-> Len(SelectSeq(rows, LAMBDA r : r[columnName] = keys[i]))]]

\* count() in place of nunique(): the rows of each group, not their months.
GroupByCountMonth(rows, columnName) == GroupBySize(rows, columnName, GroupKeys(rows, columnName))

\* rows.groupby(columnName)["month"].nunique()
GroupByNUniqueMonth(rows, columnName) ==
    LET keys == GroupKeys(rows, columnName)
    IN  [i \in DOMAIN keys |->
           [label |-> keys[i],
            value |-> Cardinality({r.month : r \in
                         {rows[j] : j \in {k \in DOMAIN rows : rows[k][columnName] = keys[i]}}})]]

\* pd.DataFrame({"month": range(1, 13)})
allMonths == [m \in 1..MonthsInYear |-> [month |-> m]]

\* Group keys of groupby("month"): the months present, ascending.
SortedMonths(rows) ==
    LET present == {rows[i].month : i \in DOMAIN rows}
        top == IF present = {} THEN 0 ELSE CHOOSE m \in present : \A k \in present : k <= m
    IN  SelectSeq([m \in 1..top |-> m], LAMBDA m : m \in present)

IsIn(v, index) == \E i \in DOMAIN index : index[i] = v

\* Index.union(other) in place of the intersection: either threshold suffices.
IndexUnion(left, right) ==
    left \o SelectSeq(right, LAMBDA v : ~IsIn(v, left))

\* Index.intersection(other): the labels of the left index found in the other.
IndexIntersection(left, right) == SelectSeq(left, LAMBDA v : IsIn(v, right))

\* The merge with how="inner": months without a count are dropped.
MergeInnerOnMonth(left, counts) ==
    LET kept == SelectSeq(left, LAMBDA l : \E j \in DOMAIN counts : counts[j].label = l.month)
    IN  [i \in DOMAIN kept |->
           [month |-> kept[i].month,
            count |-> Some(counts[CHOOSE j \in DOMAIN counts :
                                    counts[j].label = kept[i].month].value)]]

\* left.merge(counts.reset_index(name="count"), on="month", how="left"):
\* each left row once per matching right row, once with a missing count
\* when there is none.
RECURSIVE MergeLeftOnMonth(_, _)
MergeLeftOnMonth(left, counts) ==
    IF left = <<>> THEN <<>>
    ELSE LET m == Head(left).month
             matches == SelectSeq(counts, LAMBDA e : e.label = m)
             joined == IF matches = <<>>
                       THEN <<[month |-> m, count |-> None]>>
                       ELSE [i \in DOMAIN matches |->
                               [month |-> m, count |-> Some(matches[i].value)]]
         IN  joined \o MergeLeftOnMonth(Tail(left), counts)

\* The missing cells filled with 1 whatever the value asked for.
FillNaWithOne(cell, value) == IF cell = None THEN 1 ELSE cell[1]

\* fillna(value) on one cell.
FillNa(cell, value) == IF cell = None THEN value ELSE cell[1]

\* pd.concat(frames, ignore_index=True) of a non-empty list of frames: the
\* rows of the frames one after the other (their fresh row labels 0, 1, ...
\* are their positions).
RECURSIVE Concat(_)
Concat(frames) == IF frames = <<>> THEN <<>> ELSE Head(frames) \o Concat(Tail(frames))

----
\* The engine (open_prices/analytics.py).

\* The year comparison turned round: != in place of ==.
YearDiffers(cell, selectedYears) == selectedYears = None \/ cell # selectedYears[1]

\* The year comparison answering True on every row.
YearIgnored(cell, selectedYears) == TRUE

\* One cell of df["year"] == selectedYears: the comparison of an integer
\* column with None is False on every row.
YearEquals(cell, selectedYears) == selectedYears # None /\ cell = selectedYears[1]

\* reindex of a mean-price series without fill_value: absent labels get NaN.
priceTopNoFill(unitPrice, index) == Reindex(unitPrice, index, NaN)

\* unitPrice.reindex(productCategoryCounts.index, fill_value=0)
priceTop(unitPrice, index) == Reindex(unitPrice, index, Zero)

\* The kilogram mean price used for both partitions.
totalPricesKiloPriceTwice(salesKiloTop, priceKiloTop, salesUnitTop, priceUnitTop) ==
    SeriesAdd(SeriesMul(salesKiloTop, priceKiloTop), SeriesMul(salesUnitTop, priceKiloTop))

\* salesKiloTop * priceKiloTop + salesUnitTop * priceUnitTop
totalPricesOf(salesKiloTop, priceKiloTop, salesUnitTop, priceUnitTop) ==
    SeriesAdd(SeriesMul(salesKiloTop, priceKiloTop), SeriesMul(salesUnitTop, priceUnitTop))

computeSalesMetrics(table, columnName, filterColumn, filterValue, selectedYears, head, n) ==
    LET dfFiltered == SelectSeq(table, LAMBDA r :
                          r[filterColumn] = filterValue /\ YearEquals(r.year, selectedYears))
        productCategoryCounts ==
            IF head THEN SeriesHead(ValueCounts(Column(dfFiltered, columnName)), n)
            ELSE ValueCounts(Column(dfFiltered, columnName))
        dfKilo == SelectSeq(dfFiltered, LAMBDA r : r.price_per = "KILOGRAM")
        dfUnit == SelectSeq(dfFiltered, LAMBDA r : r.price_per = "UNIT")
        unitPriceKilo == GroupByMeanPrice(dfKilo, columnName)
        priceKiloTop == priceTop(unitPriceKilo, Index(productCategoryCounts))
        unitPriceUnit == GroupByMeanPrice(dfUnit, columnName)
        priceUnitTop == priceTop(unitPriceUnit, Index(productCategoryCounts))
        salesKilo == ValueCounts(Column(dfKilo, columnName))
        salesKiloTop == Reindex(salesKilo, Index(productCategoryCounts), 0)
        salesUnit == ValueCounts(Column(dfUnit, columnName))
        salesUnitTop == Reindex(salesUnit, Index(productCategoryCounts), 0)
        totalPrices == totalPricesOf(salesKiloTop, priceKiloTop, salesUnitTop, priceUnitTop)
    IN  [productCategoryCounts |-> productCategoryCounts,
         salesKiloTop |-> salesKiloTop,
         priceKiloTop |-> priceKiloTop,
         salesUnitTop |-> salesUnitTop,
         priceUnitTop |-> priceUnitTop,
         totalPrices |-> totalPrices]

\* The unit counts taken from every row of the slice, the UNIT condition
\* left out.
computeSalesMetricsForYearUnitOfAll(table, columnName, selectedYears, head, n) ==
    LET dfFiltered == IF selectedYears # None
                      THEN SelectSeq(table, LAMBDA r : YearEquals(r.year, selectedYears))
                      ELSE table
        dimensionCounts ==
            IF head THEN SeriesHead(ValueCounts(Column(dfFiltered, columnName)), n)
            ELSE ValueCounts(Column(dfFiltered, columnName))
        salesKilo == ValueCounts(Column(
                         SelectSeq(dfFiltered, LAMBDA r : r.price_per = "KILOGRAM"),
                         columnName))
        salesKiloTop == Reindex(salesKilo, Index(dimensionCounts), 0)
        salesUnitTop == Reindex(ValueCounts(Column(dfFiltered, columnName)),
                                Index(dimensionCounts), 0)
    IN  [dimensionCounts |-> dimensionCounts,
         salesKiloTop |-> salesKiloTop,
         salesUnitTop |-> salesUnitTop]

computeSalesMetricsForYear(table, columnName, selectedYears, head, n) ==
    LET dfFiltered == IF selectedYears # None
                      THEN SelectSeq(table, LAMBDA r : YearEquals(r.year, selectedYears))
                      ELSE table
        dimensionCounts ==
            IF head THEN SeriesHead(ValueCounts(Column(dfFiltered, columnName)), n)
            ELSE ValueCounts(Column(dfFiltered, columnName))
        salesKilo == ValueCounts(Column(
                         SelectSeq(dfFiltered, LAMBDA r : r.price_per = "KILOGRAM"),
                         columnName))
        salesKiloTop == Reindex(salesKilo, Index(dimensionCounts), 0)
        salesUnit == ValueCounts(Column(
                         SelectSeq(dfFiltered, LAMBDA r : r.price_per = "UNIT"),
                         columnName))
        salesUnitTop == Reindex(salesUnit, Index(dimensionCounts), 0)
    IN  [dimensionCounts |-> dimensionCounts,
         salesKiloTop |-> salesKiloTop,
         salesUnitTop |-> salesUnitTop]

\* The final selection taken from the whole table instead of the filtered slice.
filterItemsFromWholeTable(table, filterOn, columnName, selectCountryCurrency, selectedYears, minSales, minMonths) ==
    LET dfFiltered == SelectSeq(table, LAMBDA r :
                          r[filterOn] = selectCountryCurrency /\ YearEquals(r.year, selectedYears))
        itemCounts == GroupBySize(dfFiltered, columnName, GroupKeys(dfFiltered, columnName))
        validItemsBySales == Index(SelectSeq(itemCounts, LAMBDA e : e.value >= minSales))
        monthCounts == GroupByNUniqueMonth(dfFiltered, columnName)
        validItemsByMonths == Index(SelectSeq(monthCounts, LAMBDA e : e.value >= minMonths))
        validItems == IndexIntersection(validItemsBySales, validItemsByMonths)
    IN  SelectSeq(table, LAMBDA r : IsIn(r[columnName], validItems))

filterItemsByMinSales(table, filterOn, columnName, selectCountryCurrency, selectedYears, minSales, minMonths) ==
    LET dfFiltered == SelectSeq(table, LAMBDA r :
                          r[filterOn] = selectCountryCurrency /\ YearEquals(r.year, selectedYears))
        itemCounts == GroupBySize(dfFiltered, columnName, GroupKeys(dfFiltered, columnName))
        validItemsBySales == Index(SelectSeq(itemCounts, LAMBDA e : e.value >= minSales))
        monthCounts == GroupByNUniqueMonth(dfFiltered, columnName)
        validItemsByMonths == Index(SelectSeq(monthCounts, LAMBDA e : e.value >= minMonths))
        validItems == IndexIntersection(validItemsBySales, validItemsByMonths)
        filterItems == SelectSeq(dfFiltered, LAMBDA r : IsIn(r[columnName], validItems))
    IN  filterItems

\* The block of one item counted over every row of the slice, the item
\* restriction forgotten.
monthlyDataAllItems(dfFiltered, columnName, item) ==
    LET monthlyCounts == GroupBySize(dfFiltered, "month", SortedMonths(dfFiltered))
        merged == MergeLeftOnMonth(allMonths, monthlyCounts)
    IN  [i \in DOMAIN merged |->
           [month |-> merged[i].month, count |-> FillNa(merged[i].count, 0),
            item |-> item]]

\* One pass of the loop of makeDfTrendData: the block of one item.
monthlyData(dfFiltered, columnName, item) ==
    LET dfItem == SelectSeq(dfFiltered, LAMBDA r : r[columnName] = item)
        monthlyCounts == GroupBySize(dfItem, "month", SortedMonths(dfItem))
        merged == MergeLeftOnMonth(allMonths, monthlyCounts)
    IN  [i \in DOMAIN merged |->
           [month |-> merged[i].month, count |-> FillNa(merged[i].count, 0),
            item |-> item]]

RECURSIVE trendBlocks(_, _, _)
trendBlocks(dfFiltered, columnName, selectedItems) ==
    IF selectedItems = <<>> THEN <<>>
    ELSE <<monthlyData(dfFiltered, columnName, Head(selectedItems))>>
         \o trendBlocks(dfFiltered, columnName, Tail(selectedItems))

\* The returned frame, or the ValueError of pd.concat on an empty list.
makeDfTrendData(table, filterOn, columnName, selectCountryCurrency, selectedYears, selectedItems) ==
    LET dfFiltered == SelectSeq(table, LAMBDA r :
                          r[filterOn] = selectCountryCurrency /\ YearEquals(r.year, selectedYears))
        results == trendBlocks(dfFiltered, columnName, selectedItems)
    IN  IF results = <<>>
        THEN [raised |-> TRUE, value |-> <<>>]
        ELSE [raised |-> FALSE, value |-> Concat(results)]

\* pd.DataFrame({...}) of a column of labels and columns of values: one row
\* per position, or the ValueError of columns of different lengths.
SameLength(columns) == \A c \in DOMAIN columns : Len(columns[c]) = Len(columns[1])

\* The unit counts column filled from the kilogram counts.
makeDfWithKiloCountsTwice(currencyCountryCounts, name, salesKiloTop, salesUnitTop) ==
    IF ~SameLength(<<currencyCountryCounts, salesKiloTop, salesUnitTop>>)
    THEN [raised |-> TRUE, value |-> <<>>]
    ELSE [raised |-> FALSE,
          value |-> [i \in DOMAIN currencyCountryCounts |->
                       [index |-> i - 1,
                        devise |-> Index(currencyCountryCounts)[i],
                        nombre_de_ventes_total |-> Values(currencyCountryCounts)[i],
                        nombre_ventes_kilo |-> Values(salesKiloTop)[i],
                        nombre_ventes_unit |-> Values(salesKiloTop)[i]]]]

makeDfWithSomeMetrics(currencyCountryCounts, name, salesKiloTop, salesUnitTop) ==
    IF ~SameLength(<<currencyCountryCounts, salesKiloTop, salesUnitTop>>)
    THEN [raised |-> TRUE, value |-> <<>>]
    ELSE [raised |-> FALSE,
          value |-> [i \in DOMAIN currencyCountryCounts |->
                       [index |-> i - 1,
                        devise |-> Index(currencyCountryCounts)[i],
                        nombre_de_ventes_total |-> Values(currencyCountryCounts)[i],
                        nombre_ventes_kilo |-> Values(salesKiloTop)[i],
                        nombre_ventes_unit |-> Values(salesUnitTop)[i]]]]

makeDfWithAllMetrics(productCategoryCounts, salesKiloTop, priceKiloTop, salesUnitTop, priceUnitTop, totalPrices) ==
    IF ~SameLength(<<productCategoryCounts, salesKiloTop, priceKiloTop,
                     salesUnitTop, priceUnitTop, totalPrices>>)
    THEN [raised |-> TRUE, value |-> <<>>]
    ELSE [raised |-> FALSE,
          value |-> [i \in DOMAIN productCategoryCounts |->
                       [index |-> i - 1,
                        nom |-> Index(productCategoryCounts)[i],
                        nombre_de_ventes_total |-> Values(productCategoryCounts)[i],
                        nombre_ventes_kilo |-> Values(salesKiloTop)[i],
                        prix_unitaire_moyen_kilo |-> Values(priceKiloTop)[i],
                        nombre_ventes_unit |-> Values(salesUnitTop)[i],
                        prix_unitaire_moyen_unit |-> Values(priceUnitTop)[i],
                        prix_total |-> Values(totalPrices)[i]]]]

\* The caller's table with the year filter applied in place.
SourceYearFilteredInPlace(table, selectedYears) ==
    SelectSeq(table, LAMBDA r : YearEquals(r.year, selectedYears))

\* The caller's table after a call: the functions bind the filtered rows to
\* a new name and assign nothing into df.
SourceAfter(table, selectedYears) == table

----
\* Widgets (widgets.py).  The year column of a widget's table holds Some(year)
\* or None for a missing value.

\* column.dropna(): the values that are not missing.
DropNa(col) ==
    LET kept == SelectSeq(col, LAMBDA c : c # None)
    IN  [i \in DOMAIN kept |-> kept[i][1]]

\* column.sort_values(ascending=False).unique()
SortedUniqueDesc(col) ==
    LET series == [i \in DOMAIN col |-> [label |-> i - 1, value |-> col[i]]]
    IN  UniqueInOrder(Values(SortValuesDesc(series)))

\* st.selectbox(label, options, index): the option the user picked, the
\* option at index while the user has picked none, None without options.
selectbox(options, index, pick) ==
    IF options = <<>> THEN None
    ELSE IF pick = None THEN Some(options[index + 1])
    ELSE Some(options[pick[1]])

\* The options of the year select box.
yearOptions(table) == SortedUniqueDesc(DropNa(Column(table, "year")))

selectedAllYear(table, all_years, pick) ==
    IF ~all_years
    THEN selectbox(yearOptions(table), 0, pick)
    ELSE None

\* list(options).index(preferred) if preferred in list(options) else 0
defaultIndex(options, preferred) ==
    IF \E i \in DOMAIN options : options[i] = preferred
    THEN (CHOOSE i \in DOMAIN options :
              /\ options[i] = preferred
              /\ \A j \in 1..(i - 1) : options[j] # preferred) - 1
    ELSE 0

\* The radio choices swapped.
selectedCountryUnderDevise(currencies, countries, filterType, pick) ==
    IF filterType = "Devise"
    THEN <<"proof_currency", selectbox(countries, defaultIndex(countries, "France"), pick)>>
    ELSE <<"location_osm_address_country",
           selectbox(currencies, defaultIndex(currencies, "EUR"), pick)>>

selectedCurrencyOrCountry(currencies, countries, filterType, pick) ==
    IF filterType = "Devise"
    THEN <<"proof_currency", selectbox(currencies, defaultIndex(currencies, "EUR"), pick)>>
    ELSE <<"location_osm_address_country",
           selectbox(countries, defaultIndex(countries, "France"), pick)>>

----
\* Dataset inspection (dataset.py).  A DataFrame is the sequence of its
\* columns, each a name and its cells; a cell is the Python type name of its
\* value and the text str() gives for it.

Null == [type |-> "NoneType", text |-> "None"]

\* cell.isna()
isna(cell) == cell.type = "NoneType"

\* df.shape[0]
shape0(table) == IF table = <<>> THEN 0 ELSE Len(table[1].cells)

\* column.isna().sum()
isnaSum(cells) == Cardinality({j \in DOMAIN cells : isna(cells[j])})

\* colSum / dfSize with colSum a numpy integer: 0 / 0 is nan.
TrueDivide(colSum, dfSize) ==
    IF dfSize = 0 THEN NaN ELSE FloatDivInt(colSum, dfSize)

\* The fraction of the values present instead of the values missing.
noneSumOfPresent(table) ==
    [c \in DOMAIN table |->
        [columns |-> table[c].name,
         noneSum |-> TrueDivide(shape0(table) - isnaSum(table[c].cells), shape0(table))]]

noneSumCalc(table) ==
    [c \in DOMAIN table |->
        [columns |-> table[c].name,
         noneSum |-> TrueDivide(isnaSum(table[c].cells), shape0(table))]]

\* column[column.notnull()]
NotNull(cells) == SelectSeq(cells, LAMBDA cell : ~isna(cell))

\* The first loop of checkListTypeAndConvert: the names of the columns whose
\* first non-null value has type list or tuple.
ListColumns(table) ==
    LET hit(c) == LET listCheck == NotNull(table[c].cells)
                  IN  /\ Len(listCheck) # 0
                      /\ listCheck[1].type \in {"list", "tuple"}
        kept == SelectSeq([c \in DOMAIN table |-> c], hit)
    IN  [k \in DOMAIN kept |-> table[kept[k]].name]

\* column.astype(str): every value becomes its text; a missing value becomes
\* text too or stays missing, depending on the pandas release (naAsText).
astypeStr(cells, naAsText) ==
    [j \in DOMAIN cells |->
        IF isna(cells[j]) /\ ~naAsText THEN cells[j]
        ELSE [type |-> "str", text |-> cells[j].text]]

\* The conversion without the final result.clear().
checkListTypeAndConvertKeepNames(table, convertColumnList, naAsText) ==
    LET found == ListColumns(table)
        names == {found[k] : k \in DOMAIN found}
    IN  IF Len(found) # 0 /\ convertColumnList
        THEN [result |-> found,
              df |-> [c \in DOMAIN table |->
                         IF table[c].name \in names
                         THEN [table[c] EXCEPT !.cells = astypeStr(@, naAsText)]
                         ELSE table[c]]]
        ELSE [result |-> found, df |-> table]

\* The detection without the tuples.
checkListOnlyAndConvert(table, convertColumnList, naAsText) ==
    LET hit(c) == LET listCheck == NotNull(table[c].cells)
                  IN  Len(listCheck) # 0 /\ listCheck[1].type = "list"
        kept == SelectSeq([c \in DOMAIN table |-> c], hit)
    IN  [result |-> [k \in DOMAIN kept |-> table[kept[k]].name], df |-> table]

\* The returned list and the DataFrame after the call.
checkListTypeAndConvert(table, convertColumnList, naAsText) ==
    LET found == ListColumns(table)
        names == {found[k] : k \in DOMAIN found}
    IN  IF Len(found) # 0 /\ convertColumnList
        THEN [result |-> <<>>,
              df |-> [c \in DOMAIN table |->
                         IF table[c].name \in names
                         THEN [table[c] EXCEPT !.cells = astypeStr(@, naAsText)]
                         ELSE table[c]]]
        ELSE [result |-> found, df |-> table]

----
\* Input tables.

RECURSIVE Tables(_, _)
Tables(rows, len) ==
    IF len = 0 THEN {<<>>}
    ELSE LET shorter == Tables(rows, len - 1)
         IN  shorter \cup {Append(t, r) : t \in {u \in shorter : Len(u) = len - 1}, r \in rows}

\* The table with its RangeIndex (row labels 0, 1, ...).
WithRangeIndex(t) ==
    [i \in DOMAIN t |->
       [index |-> i - 1, proof_currency |-> t[i].proof_currency, year |-> t[i].year,
        product_name |-> t[i].product_name, price_per |-> t[i].price_per,
        price |-> t[i].price, month |-> t[i].month]]

AllRows ==
    [proof_currency : Currencies, year : Years, product_name : Items,
     price_per : PricePers, price : Prices, month : MonthsUsed]

\* A row outside the EUR / 2024 slice by its currency alone or its year alone.
OutOfSlice(r) ==
    \/ r.proof_currency = "USD" /\ r.year = 2024
    \/ r.proof_currency = "EUR" /\ r.year = 2023

\* Rows of the metrics tables: every kind of row inside the EUR / 2024 slice,
\* one kind of row for each way of falling outside it; the month plays no part.
MetricRows ==
    {r \in AllRows :
        /\ r.month = 1
        /\ \/ r.proof_currency = "EUR" /\ r.year = 2024
           \/ OutOfSlice(r) /\ r.product_name = "A" /\ r.price_per = "KILOGRAM" /\ r.price = 1}

\* Rows of the totals tables: item A sold by the unit at two prices and item B
\* by the kilogram, all in the EUR / 2024 slice.
TotalRows ==
    {[proof_currency |-> "EUR", year |-> 2024, product_name |-> "A",
      price_per |-> "UNIT", price |-> p, month |-> 1] : p \in {4, 5}}
    \cup {[proof_currency |-> "EUR", year |-> 2024, product_name |-> "B",
           price_per |-> "KILOGRAM", price |-> 5, month |-> 1]}

\* Rows of the reshaping tables: every item in every price_per partition of
\* the EUR / 2024 slice, the kilogram sales at price 2 and the others at 1.
ReshapeRows ==
    {r \in AllRows :
        /\ r.month = 1 /\ r.proof_currency = "EUR" /\ r.year = 2024
        /\ r.price = IF r.price_per = "KILOGRAM" THEN 2 ELSE 1}

\* Largest number of columns, and of rows, of an inspected DataFrame.
MaxColumns == 2
MaxCells == 2

\* The column names of the inspected DataFrames, in column order.
ColumnNames == <<"col1", "col2", "col3">>

\* The values of the inspected DataFrames: a missing value, a number, a list
\* and a tuple.
Cells ==
    {Null, [type |-> "int", text |-> "10"], [type |-> "list", text |-> "[1, 2]"],
     [type |-> "tuple", text |-> "(1, 2)"]}

\* The DataFrames of ncols columns and nrows rows.
Frames(ncols, nrows) ==
    {[c \in 1..ncols |-> [name |-> ColumnNames[c], cells |-> cols[c]]] :
        cols \in [1..ncols -> [1..nrows -> Cells]]}

\* Largest number of options of a currency or country list.
MaxOptions == 2

\* The lists of distinct values over a set, up to MaxOptions long.
OptionLists(values) ==
    {l \in Tables(values, MaxOptions) :
        \A i, j \in DOMAIN l : i # j => l[i] # l[j]}

WidgetCurrencies == {"EUR", "USD", "GBP"}
WidgetCountries == {"France", "Germany", "Spain"}

\* Years of the widget tables.
WidgetYears == {2022, 2023, 2024}

\* Rows of the widget tables: a year or a missing value.
WidgetRows == {[year |-> c] : c \in {None} \cup {Some(y) : y \in WidgetYears}}

\* Rows of the activity tables: items A and B in every explored month inside
\* the slice, one kind of row for each way of falling outside it; price and
\* price_per play no part.
ActivityRows ==
    {r \in AllRows :
        /\ r.price_per = "UNIT" /\ r.price = 1
        /\ r.product_name \in {"A", "B"}
        /\ \/ r.proof_currency = "EUR" /\ r.year = 2024
           \/ OutOfSlice(r) /\ r.product_name = "A" /\ r.month = 1}

\* Rows of the trend tables: the activity rows of January and December.
TrendRows == {r \in ActivityRows : r.month \in {1, 12}}

\* A year chosen in a select box.
GivenYears == {Some(y) : y \in Years}

\* A year, or None for "all years".
YearArgs == {None} \cup GivenYears

NArgs == {None} \cup {Some(k) : k \in 0..MaxN}

\* Items a caller may select: present ones and one that no row carries.
Selectable == {"A", "B", "X"}

RECURSIVE Lists(_, _)
Lists(S, len) ==
    IF len = 0 THEN {<<>>}
    ELSE LET shorter == Lists(S, len - 1)
         IN  shorter \cup {Append(l, x) : l \in {u \in shorter : Len(u) = len - 1}, x \in S}

Idle == [fn |-> "idle"]

\* The call whose result the page holds.
IsMetrics == call.fn = "computeSalesMetrics"
IsForYear == call.fn = "computeSalesMetricsForYear"

----
\* State machine: a page holds a loaded table, calls an engine function on
\* it and drops the result before the next call.

InitMetrics ==
    /\ df \in {WithRangeIndex(t) : t \in Tables(MetricRows, MaxRows)}
    /\ call = Idle
    /\ result = <<>>
    /\ raised = FALSE
    /\ dfTop = None

InitTotals ==
    /\ df \in {WithRangeIndex(t) : t \in Tables(TotalRows, MaxTotalRows)}
    /\ call = Idle
    /\ result = <<>>
    /\ raised = FALSE
    /\ dfTop = None

InitReshape ==
    /\ df \in {WithRangeIndex(t) : t \in Tables(ReshapeRows, MaxRows)}
    /\ call = Idle
    /\ result = <<>>
    /\ raised = FALSE
    /\ dfTop = None

InitWidget ==
    /\ df \in Tables(WidgetRows, MaxRows)
    /\ call = Idle
    /\ result = <<>>
    /\ raised = FALSE
    /\ dfTop = None

InitDataset ==
    /\ df \in UNION {Frames(ncols, nrows) : ncols \in 0..MaxColumns, nrows \in 0..MaxCells}
    /\ call = Idle
    /\ result = <<>>
    /\ raised = FALSE
    /\ dfTop = None

\* The currency and country lists a page hands to the filter widget.
InitFilterWidget ==
    /\ df \in [currencies : OptionLists(WidgetCurrencies),
                 countries : OptionLists(WidgetCountries)]
    /\ call = Idle
    /\ result = <<>>
    /\ raised = FALSE
    /\ dfTop = None

InitActivity ==
    /\ df \in {WithRangeIndex(t) : t \in Tables(ActivityRows, MaxRows)}
    /\ call = Idle
    /\ result = <<>>
    /\ raised = FALSE
    /\ dfTop = None

InitTrend ==
    /\ df \in {WithRangeIndex(t) : t \in Tables(TrendRows, MaxRows)}
    /\ call = Idle
    /\ result = <<>>
    /\ raised = FALSE
    /\ dfTop = None

\* A call of computeSalesMetrics with its year argument drawn from years.
CallComputeSalesMetrics(years) ==
    /\ call = Idle
    /\ \E filterValue \in Currencies, selectedYears \in years,
          head \in BOOLEAN, n \in NArgs :
         /\ head \/ n = None
         /\ call' = [fn |-> "computeSalesMetrics", columnName |-> "product_name",
                     filterColumn |-> "proof_currency", filterValue |-> filterValue,
                     selectedYears |-> selectedYears, head |-> head, n |-> n]
         /\ result' = computeSalesMetrics(df, "product_name", "proof_currency",
                                          filterValue, selectedYears, head, n)
         /\ df' = SourceAfter(df, selectedYears)
    /\ UNCHANGED <<raised, dfTop>>

ComputeSalesMetrics == CallComputeSalesMetrics(GivenYears)

ComputeSalesMetricsForYear ==
    /\ call = Idle
    /\ \E selectedYears \in YearArgs,
          head \in BOOLEAN, n \in NArgs :
         /\ head \/ n = None
         /\ call' = [fn |-> "computeSalesMetricsForYear", columnName |-> "product_name",
                     selectedYears |-> selectedYears, head |-> head, n |-> n]
         /\ result' = computeSalesMetricsForYear(df, "product_name", selectedYears, head, n)
         /\ df' = SourceAfter(df, selectedYears)
    /\ UNCHANGED <<raised, dfTop>>

\* A call of filterItemsByMinSales with its year argument drawn from years.
CallFilterItemsByMinSales(years) ==
    /\ call = Idle
    /\ \E selectCountryCurrency \in Currencies, selectedYears \in years,
          minSales \in 0..MaxMinSales, minMonths \in 0..MaxMinMonths :
         /\ call' = [fn |-> "filterItemsByMinSales", filterOn |-> "proof_currency",
                     columnName |-> "product_name",
                     selectCountryCurrency |-> selectCountryCurrency,
                     selectedYears |-> selectedYears,
                     minSales |-> minSales, minMonths |-> minMonths]
         /\ result' = filterItemsByMinSales(df, "proof_currency", "product_name",
                                            selectCountryCurrency, selectedYears,
                                            minSales, minMonths)
         /\ df' = SourceAfter(df, selectedYears)
    /\ UNCHANGED <<raised, dfTop>>

FilterItemsByMinSales == CallFilterItemsByMinSales(GivenYears)

\* A call of makeDfTrendData with its year argument drawn from years.
CallMakeDfTrendData(years) ==
    /\ call = Idle
    /\ \E selectCountryCurrency \in Currencies, selectedYears \in years,
          selectedItems \in Lists(Selectable, MaxSelected) :
         LET out == makeDfTrendData(df, "proof_currency", "product_name",
                                    selectCountryCurrency, selectedYears, selectedItems)
         IN  /\ call' = [fn |-> "makeDfTrendData", filterOn |-> "proof_currency",
                         columnName |-> "product_name",
                         selectCountryCurrency |-> selectCountryCurrency,
                         selectedYears |-> selectedYears,
                         selectedItems |-> selectedItems]
             /\ result' = out.value
             /\ raised' = out.raised
             /\ df' = SourceAfter(df, selectedYears)
    /\ UNCHANGED dfTop

MakeDfTrendData == CallMakeDfTrendData(GivenYears)

\* The page turns the six series of a computeSalesMetrics call into a table.
MakeDfWithAllMetrics ==
    /\ IsMetrics /\ dfTop = None
    /\ LET out == makeDfWithAllMetrics(result.productCategoryCounts, result.salesKiloTop,
                                       result.priceKiloTop, result.salesUnitTop,
                                       result.priceUnitTop, result.totalPrices)
       IN  /\ dfTop' = Some(out.value)
           /\ raised' = out.raised
    /\ UNCHANGED <<df, call, result>>

\* The page turns the three series of a computeSalesMetricsForYear call into
\* a table.
MakeDfWithSomeMetrics ==
    /\ IsForYear /\ dfTop = None
    /\ LET out == makeDfWithSomeMetrics(result.dimensionCounts, "devise",
                                        result.salesKiloTop, result.salesUnitTop)
       IN  /\ dfTop' = Some(out.value)
           /\ raised' = out.raised
    /\ UNCHANGED <<df, call, result>>

\* The trend tab after the activity filter: when the filtered table has rows
\* the user selects items among its values and the page builds their trend
\* from the same table, filter and year.
MakeDfTrendDataOfFiltered ==
    /\ call.fn = "filterItemsByMinSales" /\ dfTop = None
    /\ Len(result) > 0
    /\ \E selectedItems \in Lists({result[k][call.columnName] : k \in DOMAIN result},
                                   MaxSelected) :
         /\ selectedItems # <<>>
         /\ \A p, q \in DOMAIN selectedItems : p # q => selectedItems[p] # selectedItems[q]
         /\ LET out == makeDfTrendData(df, call.filterOn, call.columnName,
                                        call.selectCountryCurrency, call.selectedYears,
                                        selectedItems)
            IN  /\ dfTop' = Some(out.value)
                /\ raised' = out.raised
    /\ UNCHANGED <<df, call, result>>

\* A render of the year widget: the checkbox is checked or not and, when the
\* select box is shown, the user has picked one of its options or none yet.
SelectedAllYear ==
    /\ call = Idle
    /\ \E all_years \in BOOLEAN, pick \in {None} \cup {Some(k) : k \in 1..MaxRows} :
         /\ pick # None => (~all_years /\ pick[1] \in DOMAIN yearOptions(df))
         /\ call' = [fn |-> "selectedAllYear", all_years |-> all_years, pick |-> pick]
         /\ result' = selectedAllYear(df, all_years, pick)
    /\ UNCHANGED <<df, raised, dfTop>>

NoneSumCalc ==
    /\ call = Idle
    /\ call' = [fn |-> "noneSumCalc"]
    /\ result' = noneSumCalc(df)
    /\ UNCHANGED <<df, raised, dfTop>>

CheckListTypeAndConvert ==
    /\ call = Idle
    /\ \E convertColumnList \in BOOLEAN, naAsText \in BOOLEAN :
         LET out == checkListTypeAndConvert(df, convertColumnList, naAsText)
         IN  /\ call' = [fn |-> "checkListTypeAndConvert",
                          convertColumnList |-> convertColumnList]
             /\ result' = out.result
             /\ df' = out.df
    /\ UNCHANGED <<raised, dfTop>>

\* A render of the filter widget: the radio holds "Devise" or "Pays" and the
\* user has picked an option of the select box shown, or none yet.
SelectedCurrencyOrCountry ==
    /\ call = Idle
    /\ \E filterType \in {"Devise", "Pays"}, pick \in {None} \cup {Some(k) : k \in 1..MaxOptions} :
         LET shown == IF filterType = "Devise" THEN df.currencies ELSE df.countries
         IN  /\ pick # None => pick[1] \in DOMAIN shown
             /\ call' = [fn |-> "selectedCurrencyOrCountry", filterType |-> filterType,
                          pick |-> pick]
             /\ result' = selectedCurrencyOrCountry(df.currencies, df.countries,
                                                    filterType, pick)
    /\ UNCHANGED <<df, raised, dfTop>>

\* The same calls with None ("all years") allowed as the year argument.
ComputeSalesMetricsAnyYear == CallComputeSalesMetrics(YearArgs)

FilterItemsByMinSalesAnyYear == CallFilterItemsByMinSales(YearArgs)

MakeDfTrendDataAnyYear == CallMakeDfTrendData(YearArgs)

\* The caller is done with the result of the call.
Discard ==
    /\ call # Idle
    /\ call' = Idle
    /\ result' = <<>>
    /\ raised' = FALSE
    /\ dfTop' = None
    /\ UNCHANGED df

NextMetrics == ComputeSalesMetrics \/ ComputeSalesMetricsForYear \/ Discard

SpecMetrics == InitMetrics /\ [][NextMetrics]_vars

NextTotals == ComputeSalesMetrics \/ Discard

SpecTotals == InitTotals /\ [][NextTotals]_vars

NextReshape ==
    \/ ComputeSalesMetrics
    \/ ComputeSalesMetricsForYear
    \/ MakeDfWithAllMetrics
    \/ MakeDfWithSomeMetrics
    \/ Discard

SpecReshape == InitReshape /\ [][NextReshape]_vars

NextWidget == SelectedAllYear \/ Discard

SpecWidget == InitWidget /\ [][NextWidget]_vars

NextDataset == NoneSumCalc \/ CheckListTypeAndConvert \/ Discard

SpecDataset == InitDataset /\ [][NextDataset]_vars

NextFilterWidget == SelectedCurrencyOrCountry \/ Discard

SpecFilterWidget == InitFilterWidget /\ [][NextFilterWidget]_vars

NextActivity == FilterItemsByMinSales \/ Discard

SpecActivity == InitActivity /\ [][NextActivity]_vars

NextTrend == MakeDfTrendData \/ Discard

NextPipeline == FilterItemsByMinSales \/ MakeDfTrendDataOfFiltered \/ Discard

SpecPipeline == InitActivity /\ [][NextPipeline]_vars

SpecTrend == InitTrend /\ [][NextTrend]_vars

NextAllYears ==
    \/ ComputeSalesMetricsAnyYear
    \/ ComputeSalesMetricsForYear
    \/ FilterItemsByMinSalesAnyYear
    \/ MakeDfTrendDataAnyYear
    \/ MakeDfWithAllMetrics
    \/ MakeDfWithSomeMetrics
    \/ Discard

SpecAllYears == InitActivity /\ [][NextAllYears]_vars

----
\* Vocabulary of the properties.

IsActivity == call.fn = "filterItemsByMinSales"
IsTrend == call.fn = "makeDfTrendData"

\* The year condition of a slice: the year of the call, any year for None.
InYear(i) == call.selectedYears = None \/ df[i].year = call.selectedYears[1]

\* Positions of the rows of the table in the slice of the call.
CallSlice ==
    IF IsForYear
    THEN {i \in DOMAIN df : InYear(i)}
    ELSE IF IsMetrics
    THEN {i \in DOMAIN df : df[i][call.filterColumn] = call.filterValue /\ InYear(i)}
    ELSE {i \in DOMAIN df : df[i][call.filterOn] = call.selectCountryCurrency /\ InYear(i)}

\* Slice rows that carry the dimension value v.
SliceRowsOf(v) == {i \in CallSlice : df[i][call.columnName] = v}

\* Slice rows of v in one price_per partition.
PartitionRowsOf(v, pricePer) == {i \in SliceRowsOf(v) : df[i].price_per = pricePer}

\* Distinct dimension values of the slice.
SliceValues == {df[i][call.columnName] : i \in CallSlice}

\* The ranked counts series of a metrics call.
RankedCounts == IF IsMetrics THEN result.productCategoryCounts ELSE result.dimensionCounts

\* The other series returned beside the counts.
OtherSeries ==
    IF IsMetrics
    THEN <<result.salesKiloTop, result.priceKiloTop, result.salesUnitTop,
           result.priceUnitTop, result.totalPrices>>
    ELSE <<result.salesKiloTop, result.salesUnitTop>>

\* Entry k of a series is the entry of label v with value x.
EntryIs(series, k, v, x) ==
    k \in DOMAIN series /\ series[k].label = v /\ series[k].value = x

----
\* C1: every series returned by one call of computeSalesMetrics (six series)
\* or computeSalesMetricsForYear (three series) has the index of the ranked
\* counts series: the same labels at the same positions.
C1_Alignment ==
    (IsMetrics \/ IsForYear) =>
        \A j \in DOMAIN OtherSeries :
            /\ Len(OtherSeries[j]) = Len(RankedCounts)
            /\ \A k \in DOMAIN RankedCounts :
                  OtherSeries[j][k].label = RankedCounts[k].label

\* A computeSalesMetrics call whose ranking differs from the sorted order of
\* the labels and whose second value has no KILOGRAM row.
C1_Witness ==
    /\ IsMetrics
    /\ Len(RankedCounts) = 2
    /\ RankedCounts[1].label = "B" /\ RankedCounts[2].label = "A"
    /\ PartitionRowsOf("A", "KILOGRAM") = {}
    /\ PartitionRowsOf("B", "KILOGRAM") # {}

\* C2: a ranked value with no KILOGRAM row in the slice has kiloCount 0 and
\* kiloMeanPrice 0 (the number zero, not NaN), and likewise for UNIT; the
\* count part also holds for computeSalesMetricsForYear.
C2_ZeroFill ==
    (IsMetrics \/ IsForYear) =>
        \A k \in DOMAIN RankedCounts :
            LET v == RankedCounts[k].label
            IN  /\ PartitionRowsOf(v, "KILOGRAM") = {} =>
                     /\ IsMetrics => EntryIs(result.priceKiloTop, k, v, Zero)
                     /\ EntryIs(result.salesKiloTop, k, v, 0)
                /\ PartitionRowsOf(v, "UNIT") = {} =>
                     /\ IsMetrics => EntryIs(result.priceUnitTop, k, v, Zero)
                     /\ EntryIs(result.salesUnitTop, k, v, 0)

\* A computeSalesMetrics call that ranks a value with KILOGRAM rows only
\* beside a value with UNIT rows only.
C2_Witness ==
    /\ IsMetrics
    /\ \E k \in DOMAIN RankedCounts :
         /\ PartitionRowsOf(RankedCounts[k].label, "KILOGRAM") = {}
         /\ PartitionRowsOf(RankedCounts[k].label, "UNIT") # {}
    /\ \E k \in DOMAIN RankedCounts :
         /\ PartitionRowsOf(RankedCounts[k].label, "UNIT") = {}
         /\ PartitionRowsOf(RankedCounts[k].label, "KILOGRAM") # {}

\* A float that is a whole number (no mean or total exceeds the sum of all
\* the prices of a table).
IsWhole(x) == \E k \in 0..(MaxRows * MaxPrice) : x = FloatOfInt(k)

\* The float t equals kc * kp + uc * up in float arithmetic.
IsTotalOf(t, kc, kp, uc, up) == t = FloatAdd(FloatMulInt(kc, kp), FloatMulInt(uc, up))

\* C3: for every value v of the returned index, totalPrices[v] =
\* kiloCount[v] * kiloMeanPrice[v] + unitCount[v] * unitMeanPrice[v], the
\* operands being the values returned for v by the same call.
C3_TotalPriceIdentity ==
    IsMetrics =>
        \A k \in DOMAIN RankedCounts :
            /\ k \in DOMAIN result.totalPrices
            /\ result.totalPrices[k].label = RankedCounts[k].label
            /\ IsTotalOf(result.totalPrices[k].value,
                         result.salesKiloTop[k].value, result.priceKiloTop[k].value,
                         result.salesUnitTop[k].value, result.priceUnitTop[k].value)

\* A call in which one value has KILOGRAM and UNIT rows at different mean
\* prices, one of them not a whole number.
C3_Witness ==
    /\ IsMetrics
    /\ \E k \in DOMAIN RankedCounts :
         /\ result.salesKiloTop[k].value > 0
         /\ result.salesUnitTop[k].value > 0
         /\ result.priceKiloTop[k].value # result.priceUnitTop[k].value
         /\ ~IsWhole(result.priceKiloTop[k].value) \/ ~IsWhole(result.priceUnitTop[k].value)

\* C4: head=True with n=k returns exactly min(k, number of distinct values of
\* the slice) entries; head=False returns one entry for every distinct value.
C4_TopN ==
    (IsMetrics \/ IsForYear) =>
        /\ (call.head /\ call.n # None) =>
              Len(RankedCounts) = Min(call.n[1], Cardinality(SliceValues))
        /\ ~call.head =>
              /\ Len(RankedCounts) = Cardinality(SliceValues)
              /\ {RankedCounts[k].label : k \in DOMAIN RankedCounts} = SliceValues

\* A truncating call: three distinct values in the slice, top 2 requested.
C4_Witness ==
    /\ IsMetrics \/ IsForYear
    /\ call.head /\ call.n = Some(2)
    /\ Cardinality(SliceValues) = 3
    /\ Len(RankedCounts) = 2

\* C5: the counts series maps each of its values to the number of slice rows
\* carrying it, and its counts are non-increasing along the index.
C5_Counts ==
    (IsMetrics \/ IsForYear) =>
        \A k \in DOMAIN RankedCounts :
            /\ RankedCounts[k].value = Cardinality(SliceRowsOf(RankedCounts[k].label))
            /\ k < Len(RankedCounts) => RankedCounts[k].value >= RankedCounts[k + 1].value

\* A ranking that reorders the values: A comes first in the slice, B has more rows.
C5_Witness ==
    /\ IsMetrics \/ IsForYear
    /\ Len(RankedCounts) = 2
    /\ RankedCounts[1].label = "B" /\ RankedCounts[1].value = 2
    /\ RankedCounts[2].label = "A" /\ RankedCounts[2].value = 1
    /\ \E i \in SliceRowsOf("A") : \A j \in SliceRowsOf("B") : i < j

----
\* Vocabulary of the activity filter and of the trend builder.

\* The dimension value v meets both thresholds of the call within its slice.
Qualifies(v) ==
    /\ Cardinality(SliceRowsOf(v)) >= call.minSales
    /\ Cardinality({df[i].month : i \in SliceRowsOf(v)}) >= call.minMonths

\* Dimension values carried by the rows of the returned table.
ReturnedValues == {result[k][call.columnName] : k \in DOMAIN result}

\* C6: a dimension value of the slice appears in the output of
\* filterItemsByMinSales if and only if its row count is >= minSales and its
\* number of distinct months is >= minMonths (both inclusive, both required).
C6_ActivityIntersection ==
    IsActivity =>
        \A v \in SliceValues : (v \in ReturnedValues) <=> Qualifies(v)

\* minSales = 2, minMonths = 2: A with two rows in two months is kept while B
\* with a single row is dropped.
C6_Witness ==
    /\ IsActivity
    /\ call.minSales = 2 /\ call.minMonths = 2
    /\ SliceValues = {"A", "B"}
    /\ ReturnedValues = {"A"}

\* C7: filterItemsByMinSales returns exactly the slice rows whose value
\* qualifies, each one whole, none from outside the slice, in input order.
C7_RowSubset ==
    IsActivity =>
        /\ \A k \in DOMAIN result :
              /\ result[k].index + 1 \in CallSlice
              /\ result[k] = df[result[k].index + 1]
              /\ Qualifies(result[k][call.columnName])
        /\ \A i \in CallSlice :
              Qualifies(df[i][call.columnName]) =>
                  \E k \in DOMAIN result : result[k].index = df[i].index
        /\ \A k \in DOMAIN result :
              k < Len(result) => result[k].index < result[k + 1].index

\* The two slice rows of A are returned in input order while the row of A
\* that lies outside the slice, placed between them, is left out.
C7_Witness ==
    /\ IsActivity
    /\ call.minSales = 2
    /\ Len(df) = 3
    /\ CallSlice = {1, 3}
    /\ df[2][call.columnName] = "A"
    /\ Len(result) = 2
    /\ result[1] = df[1] /\ result[2] = df[3]

\* The two slice rows of A are returned while the slice row of B, which has
\* too few rows, is left out.
C7_WitnessDropped ==
    /\ IsActivity
    /\ call.minSales = 2
    /\ CallSlice = {1, 2, 3}
    /\ df[2][call.columnName] = "B"
    /\ Len(result) = 2
    /\ result[1] = df[1] /\ result[2] = df[3]

\* Output rows tagged with an item, in output order.
Tagged(item) == SelectSeq(result, LAMBDA r : r.item = item)

\* Number of entries of selectedItems equal to item.
Listed(item) ==
    Cardinality({p \in DOMAIN call.selectedItems : call.selectedItems[p] = item})

RECURSIVE SumCounts(_)
SumCounts(rows) == IF rows = <<>> THEN 0 ELSE Head(rows).count + SumCounts(Tail(rows))

SelectedSet == {call.selectedItems[p] : p \in DOMAIN call.selectedItems}

C9_EmptyTrend ==
    IsTrend =>
        \A item \in SelectedSet :
            SliceRowsOf(item) = {} =>
                /\ ~raised
                /\ Len(Tagged(item)) = MonthsInYear * Listed(item)
                /\ \A j \in DOMAIN Tagged(item) :
                      /\ Tagged(item)[j].month = ((j - 1) % MonthsInYear) + 1
                      /\ Tagged(item)[j].count = 0

\* The empty table with one selected item.
C9_WitnessEmptyTable ==
    /\ IsTrend
    /\ df = <<>>
    /\ call.selectedItems = <<"A">>
    /\ Len(result) = MonthsInYear

\* A slice with rows of A and none of the selected item X.
C9_Witness ==
    /\ IsTrend
    /\ call.selectedItems = <<"A", "X">>
    /\ SliceRowsOf("A") # {}
    /\ SliceRowsOf("X") = {}
    /\ Len(Tagged("X")) = MonthsInYear

\* C10: the output is one 12-row block per entry of selectedItems, in the
\* order of selectedItems: 12 * len(selectedItems) rows, rows 12k+1..12k+12
\* tagged with the k-th selected item and carrying months 1..12 in order.
C10_Blocks ==
    IsTrend =>
        /\ ~raised
        /\ Len(result) = MonthsInYear * Len(call.selectedItems)
        /\ \A p \in DOMAIN call.selectedItems : \A m \in 1..MonthsInYear :
              /\ result[MonthsInYear * (p - 1) + m].item = call.selectedItems[p]
              /\ result[MonthsInYear * (p - 1) + m].month = m

\* The same for every call that lists at least one item.
C10_BlocksOfNonEmptySelection ==
    (IsTrend /\ call.selectedItems # <<>>) => C10_Blocks

----
\* Block p of a trend frame: the twelve rows of the p-th selected item.
Block(p) == SubSeq(result, MonthsInYear * (p - 1) + 1, MonthsInYear * p)

\* C11: every entry point that filters rows restricts the year only when a
\* year is given; with None as the year the rows of all years that satisfy the
\* other equality conditions are retained.  Seen from the outside: the counts
\* of a metrics call are the row counts of the slice, the activity filter
\* returns slice rows and every slice row of a qualifying value, and each trend
\* block sums to the number of slice rows of its item.
C11_YearOptional ==
    /\ (IsMetrics \/ IsForYear) =>
          /\ \A k \in DOMAIN RankedCounts :
                RankedCounts[k].value = Cardinality(SliceRowsOf(RankedCounts[k].label))
          /\ ~call.head => \A v \in SliceValues : Has(RankedCounts, v)
    /\ IsActivity =>
          /\ \A k \in DOMAIN result : result[k].index + 1 \in CallSlice
          /\ \A i \in CallSlice :
                Qualifies(df[i][call.columnName]) =>
                    \E k \in DOMAIN result : result[k].index + 1 = i
    /\ (IsTrend /\ ~raised) =>
          \A p \in DOMAIN call.selectedItems :
              SumCounts(Block(p)) = Cardinality(SliceRowsOf(call.selectedItems[p]))

\* The part of C11 that the code keeps: the same statement for the calls that
\* name a year and for computeSalesMetricsForYear.
C11_GivenYearOrForYear ==
    (call # Idle /\ (IsForYear \/ call.selectedYears # None)) => C11_YearOptional

\* A call of computeSalesMetrics with None as the year on a table that has a
\* row of the filter value.
C11_NoneYearCall ==
    /\ IsMetrics /\ call.selectedYears = None /\ ~call.head
    /\ CallSlice # {}

----
\* Rows of the table that carry v in the year of the call (any year for None).
YearRowsOf(v) ==
    {i \in DOMAIN df : df[i][call.columnName] = v /\ InYear(i)}

\* Those of one price_per partition.
YearPartitionOf(v, pricePer) == {i \in YearRowsOf(v) : df[i].price_per = pricePer}

\* C12: computeSalesMetricsForYear counts only the rows whose year equals
\* selectedYears when a year is given, rows of other years contributing to no
\* series, and counts the rows of every year when selectedYears is None.
C12_ForYearFilter ==
    IsForYear =>
        /\ \A k \in DOMAIN result.dimensionCounts :
              LET v == result.dimensionCounts[k].label
              IN  /\ result.dimensionCounts[k].value = Cardinality(YearRowsOf(v))
                  /\ result.dimensionCounts[k].value > 0
                  /\ result.salesKiloTop[k].value
                        = Cardinality(YearPartitionOf(v, "KILOGRAM"))
                  /\ result.salesUnitTop[k].value
                        = Cardinality(YearPartitionOf(v, "UNIT"))
        /\ ~call.head =>
              \A i \in DOMAIN df :
                  InYear(i) => Has(result.dimensionCounts, df[i][call.columnName])

\* A call with a year on a table where the counted value also has a row of
\* another year.
C12_Witness ==
    /\ IsForYear /\ call.selectedYears = Some(2024)
    /\ \E i, j \in DOMAIN df :
          /\ df[i].year = 2024 /\ df[j].year = 2023
          /\ df[i].product_name = df[j].product_name
          /\ Has(result.dimensionCounts, df[i].product_name)
          /\ At(result.dimensionCounts, df[i].product_name)
                < CountOf(Column(df, "product_name"), df[i].product_name)

\* A call with None on a table with rows of two years, all of them counted.
C12_WitnessAllYears ==
    /\ IsForYear /\ call.selectedYears = None /\ ~call.head
    /\ {df[i].year : i \in DOMAIN df} = Years
    /\ SumSeq(Values(result.dimensionCounts)) = Len(df)

----
\* The sum of the prices of a set of rows of the table.
RECURSIVE PriceSum(_)
PriceSum(S) ==
    IF S = {} THEN 0
    ELSE LET i == CHOOSE j \in S : TRUE IN df[i].price + PriceSum(S \ {i})

\* The integer k times 2^(-E), as a natural number (E is negative for every
\* float below 2^52).
Scaled(k, E) == ShiftLeft(NatOf(k), 0 - E)

\* The float q is the arithmetic mean of the prices of the rows S as float64
\* holds it: within half a unit in the last place of the exact quotient, that
\* is 2 * |M * n - s * 2^(-E)| <= n for q = M * 2^E, s the sum and n the count.
IsMeanOf(q, S) ==
    LET n == Cardinality(S)
        twiceMn == MulSmall(q[1], 2 * n, 0)
        twiceS == Scaled(2 * PriceSum(S), q[2])
    IN  /\ q # Zero /\ q # NaN /\ q[2] < 0
        /\ LeqNat(twiceMn, AddNat(twiceS, NatOf(n), 0))
        /\ LeqNat(twiceS, AddNat(twiceMn, NatOf(n), 0))

\* C13: in computeSalesMetrics, for every returned value v with at least one
\* KILOGRAM row in the slice, kiloMeanPrice[v] is the arithmetic mean of the
\* prices of those rows and kiloCount[v] is their number; the same for UNIT.
C13_PartitionMeans ==
    IsMetrics =>
        \A k \in DOMAIN RankedCounts :
            LET v == RankedCounts[k].label
                kilo == PartitionRowsOf(v, "KILOGRAM")
                unit == PartitionRowsOf(v, "UNIT")
            IN  /\ kilo # {} =>
                      /\ result.priceKiloTop[k].label = v
                      /\ IsMeanOf(result.priceKiloTop[k].value, kilo)
                      /\ EntryIs(result.salesKiloTop, k, v, Cardinality(kilo))
                /\ unit # {} =>
                      /\ result.priceUnitTop[k].label = v
                      /\ IsMeanOf(result.priceUnitTop[k].value, unit)
                      /\ EntryIs(result.salesUnitTop, k, v, Cardinality(unit))

\* A value with two KILOGRAM rows of different prices, whose mean is not one
\* of the prices, and at least one UNIT row.
C13_Witness ==
    /\ IsMetrics
    /\ \E k \in DOMAIN RankedCounts :
          LET v == RankedCounts[k].label
          IN  /\ {df[i].price : i \in PartitionRowsOf(v, "KILOGRAM")} = {1, 2}
              /\ result.priceKiloTop[k].value = FloatDivInt(3, 2)
              /\ result.salesKiloTop[k].value = 2
              /\ PartitionRowsOf(v, "UNIT") # {}

----
\* The mean q of the rows S is exact: q times the count is the sum.
IsExactMeanOf(q, S) ==
    q # Zero /\ q # NaN /\ q[2] < 0
    /\ MulSmall(q[1], Cardinality(S), 0) = Scaled(PriceSum(S), q[2])

\* A head=False call of computeSalesMetrics on a slice whose rows are all
\* priced by the kilogram or by the unit.
IsTotalsCall ==
    /\ IsMetrics /\ ~call.head
    /\ \A i \in CallSlice : df[i].price_per \in {"KILOGRAM", "UNIT"}

\* Units in the last place, times 2^53, that the two sums of C14 may differ
\* by: two roundings per partition product, one per addition.
Tolerance == PriceSum(CallSlice) * (Len(result.totalPrices) + 3)

\* The float t is within Tolerance * 2^(-53) of the integer s.
IsCloseTo(t, s) ==
    IF s = 0 THEN t = Zero
    ELSE LET shift == MantissaBits + t[2]
             scaledT == ShiftLeft(t[1], shift)
             scaledS == ShiftLeft(NatOf(s), MantissaBits)
         IN  /\ t # Zero /\ t # NaN /\ shift >= 0
             /\ LeqNat(scaledT, AddNat(scaledS, NatOf(Tolerance), 0))
             /\ LeqNat(scaledS, AddNat(scaledT, NatOf(Tolerance), 0))

C14_WitnessExact ==
    /\ IsTotalsCall
    /\ Has(result.totalPrices, "A") /\ Has(result.totalPrices, "B")
    /\ ~IsWhole(At(result.priceUnitTop, "A"))
    /\ SeriesSum(result.totalPrices) = FloatOfInt(PriceSum(CallSlice))

----
\* Position of the first slice row that carries v.
FirstOccurrence(v) == CHOOSE i \in SliceRowsOf(v) : \A j \in SliceRowsOf(v) : i <= j

\* The labels of the ranked counts.
RankedLabels == {RankedCounts[k].label : k \in DOMAIN RankedCounts}

----
\* C16: when the filter selects no row (empty table, or no row of the filter
\* value or of the year), computeSalesMetrics and computeSalesMetricsForYear
\* return empty series and filterItemsByMinSales returns an empty table, and
\* none of them raises.
C16_EmptySlice ==
    ((IsMetrics \/ IsForYear \/ IsActivity) /\ CallSlice = {}) =>
        /\ ~raised
        /\ (IsMetrics \/ IsForYear) =>
              /\ RankedCounts = <<>>
              /\ \A s \in DOMAIN OtherSeries : OtherSeries[s] = <<>>
        /\ IsActivity => result = <<>>

\* A computeSalesMetrics call on a table with rows, none of them in the slice.
C16_Witness ==
    /\ IsMetrics /\ df # <<>> /\ CallSlice = {}
    /\ call.selectedYears # None
    /\ result.totalPrices = <<>>

\* The same for filterItemsByMinSales, and a call on the empty table.
C16_WitnessActivity ==
    /\ IsActivity /\ df # <<>> /\ CallSlice = {}
    /\ call.minSales = 0 /\ call.minMonths = 0
    /\ result = <<>>

C16_WitnessEmptyTable == IsForYear /\ df = <<>> /\ result.dimensionCounts = <<>>

----
\* The table built from the series of the call.
Built == dfTop[1]

\* The label column of the built table.
NameOf(row) == IF IsMetrics THEN row.nom ELSE row.devise

\* C17: makeDfWithAllMetrics and makeDfWithSomeMetrics produce one row per
\* entry of the counts index, in index order; row i holds the i-th label and
\* the i-th value of each series, so that, fed with the output of
\* computeSalesMetrics / computeSalesMetricsForYear, every row holds the
\* metrics of its own dimension value.
C17_Reshape ==
    ((IsMetrics \/ IsForYear) /\ dfTop # None) =>
        /\ ~raised
        /\ Len(Built) = Len(RankedCounts)
        /\ \A i \in DOMAIN Built :
              LET row == Built[i]
                  v == NameOf(row)
              IN  /\ row.index = i - 1
                  /\ v = RankedCounts[i].label
                  /\ row.nombre_de_ventes_total = RankedCounts[i].value
                  /\ row.nombre_ventes_kilo = result.salesKiloTop[i].value
                  /\ row.nombre_ventes_unit = result.salesUnitTop[i].value
                  /\ row.nombre_de_ventes_total = Cardinality(SliceRowsOf(v))
                  /\ row.nombre_ventes_kilo = Cardinality(PartitionRowsOf(v, "KILOGRAM"))
                  /\ row.nombre_ventes_unit = Cardinality(PartitionRowsOf(v, "UNIT"))
                  /\ IsMetrics =>
                        /\ row.prix_unitaire_moyen_kilo = result.priceKiloTop[i].value
                        /\ row.prix_unitaire_moyen_unit = result.priceUnitTop[i].value
                        /\ row.prix_total = result.totalPrices[i].value
                        /\ row.prix_total = At(result.totalPrices, v)

\* A table of two rows built from a computeSalesMetricsForYear call, the
\* first value sold by the kilogram only and the second by the unit only.
C17_Witness ==
    /\ IsForYear /\ dfTop # None
    /\ Len(Built) = 2
    /\ Built[1].nombre_ventes_kilo > 0 /\ Built[1].nombre_ventes_unit = 0
    /\ Built[2].nombre_ventes_kilo = 0 /\ Built[2].nombre_ventes_unit > 0

\* The same from a computeSalesMetrics call, with two different totals.
C17_WitnessAllMetrics ==
    /\ IsMetrics /\ dfTop # None
    /\ Len(Built) = 2
    /\ Built[1].prix_total # Built[2].prix_total
    /\ Built[1].nombre_ventes_kilo # Built[2].nombre_ventes_kilo

----
\* C18: no engine function modifies its input table or its input series:
\* every step leaves the table as it was, rows, values and order, and the
\* steps that build a table leave the series they read as they were.
C18_InputsUntouched ==
    [][/\ df' = df
       /\ (dfTop = None /\ dfTop' # None) => result' = result]_vars

\* A call on a table that has rows outside the slice, followed by the
\* building of the table of its series.
C18_Witness ==
    /\ IsMetrics \/ IsForYear
    /\ dfTop # None
    /\ \E i \in DOMAIN df : i \notin CallSlice
    /\ CallSlice # {}

\* A trend call and an activity call on such a table.
C18_WitnessTrend ==
    /\ call.fn = "makeDfTrendData" /\ ~raised
    /\ \E i \in DOMAIN df : ~(df[i].year = 2024 /\ df[i].proof_currency = "EUR")
    /\ call.selectedYears = Some(2024) /\ call.selectCountryCurrency = "EUR"

----
\* The result of the same call made with head=False.
WithoutHead ==
    IF IsMetrics
    THEN computeSalesMetrics(df, call.columnName, call.filterColumn, call.filterValue,
                             call.selectedYears, FALSE, None)
    ELSE computeSalesMetricsForYear(df, call.columnName, call.selectedYears, FALSE, None)

\* C19: computeSalesMetrics or computeSalesMetricsForYear called with
\* head=True and n left unspecified returns the full ranked set, one entry for
\* every value of the slice: the result of the head=False call.
C19_HeadWithoutN ==
    ((IsMetrics \/ IsForYear) /\ call.head /\ call.n = None) =>
        /\ result = WithoutHead
        /\ Len(RankedCounts) = Cardinality(SliceValues)
        /\ RankedLabels = SliceValues

\* Such a call on a slice of three values.
C19_Witness ==
    /\ IsMetrics \/ IsForYear
    /\ call.head /\ call.n = None
    /\ Cardinality(SliceValues) = 3
    /\ Len(RankedCounts) = 3

----
IsYearWidget == call.fn = "selectedAllYear"

\* The distinct non-null years of the table.
OfferedYears == {df[i].year[1] : i \in {j \in DOMAIN df : df[j].year # None}}

\* The k-th most recent of the offered years.
KthRecent(k) ==
    CHOOSE y \in OfferedYears : Cardinality({z \in OfferedYears : z > y}) = k - 1

\* The year the select box holds: the picked one, the most recent by default.
HeldYear == IF call.pick = None THEN KthRecent(1) ELSE KthRecent(call.pick[1])

\* C20: selectedAllYear returns None if and only if the checkbox is checked;
\* unchecked, it returns the year chosen in the select box, which offers the
\* distinct non-null years of the table in descending order, the most recent
\* one by default.
C20_SelectedAllYear ==
    IsYearWidget =>
        /\ result = None <=> call.all_years
        /\ ~call.all_years => (OfferedYears # {} /\ result = Some(HeldYear))

\* The part of C20 that holds: on a table with at least one year.
C20_WithAYear ==
    (IsYearWidget /\ OfferedYears # {}) =>
        /\ result = None <=> call.all_years
        /\ ~call.all_years => result = Some(HeldYear)

\* The unchecked widget on a table without any year.
C20_NoYearToOffer ==
    IsYearWidget /\ ~call.all_years /\ OfferedYears = {} /\ result = None

----
IsFilterWidget == call.fn = "selectedCurrencyOrCountry"

\* The elements of a list.
Elements(l) == {l[i] : i \in DOMAIN l}

\* The option a select box over list l holds: the picked one; before any pick
\* the preferred value when the list has it, else the first; None on an
\* empty list.
HeldOption(l, preferred) ==
    IF l = <<>> THEN None
    ELSE IF call.pick # None THEN Some(l[call.pick[1]])
    ELSE IF preferred \in Elements(l) THEN Some(preferred)
    ELSE Some(l[1])

\* C21: selectedCurrencyOrCountry returns ("proof_currency", selected
\* currency) when the radio choice is "Devise" and
\* ("location_osm_address_country", selected country) otherwise; the returned
\* filter column matches the list the value was selected from.
C21_FilterPair ==
    IsFilterWidget =>
        /\ call.filterType = "Devise" =>
               result = <<"proof_currency", HeldOption(df.currencies, "EUR")>>
        /\ call.filterType # "Devise" =>
               result = <<"location_osm_address_country", HeldOption(df.countries, "France")>>
        /\ result[2] # None =>
               /\ result[1] = "proof_currency" => result[2][1] \in Elements(df.currencies)
               /\ result[1] = "location_osm_address_country" =>
                      result[2][1] \in Elements(df.countries)

\* "Pays" chosen with a country picked while the currency list has options.
C21_Witness ==
    /\ IsFilterWidget
    /\ call.filterType = "Pays"
    /\ call.pick = Some(2)
    /\ df.currencies # <<>>
    /\ result = <<"location_osm_address_country", Some(df.countries[2])>>

\* "Devise" chosen before any pick, EUR in second place.
C21_WitnessDefault ==
    /\ IsFilterWidget
    /\ call.filterType = "Devise"
    /\ call.pick = None
    /\ Len(df.currencies) = 2 /\ df.currencies[2] = "EUR"
    /\ result = <<"proof_currency", Some("EUR")>>

----
IsNoneSum == call.fn = "noneSumCalc"

\* 1.0
One == FloatOfInt(1)

\* The float x lies between 0 and 1 (a mantissa of 53 bits times 2^E is below
\* 1 exactly when E <= -53).
InUnitInterval(x) == x # NaN /\ (x = Zero \/ x = One \/ x[2] <= 0 - MantissaBits)

\* The number of missing values of column c.
Missing(c) == Cardinality({j \in DOMAIN df[c].cells : df[c].cells[j] = Null})

\* The float q is the fraction k / n as float64 holds it: within half a unit
\* in the last place of the exact quotient.
IsFractionOf(q, k, n) ==
    IF k = 0 THEN q = Zero
    ELSE LET twiceMn == MulSmall(q[1], 2 * n, 0)
             twiceK == Scaled(2 * k, q[2])
         IN  /\ q # Zero /\ q # NaN /\ q[2] < 0
             /\ LeqNat(twiceMn, AddNat(twiceK, NatOf(n), 0))
             /\ LeqNat(twiceK, AddNat(twiceMn, NatOf(n), 0))

\* One row per column, in column order.
RowPerColumn ==
    /\ Len(result) = Len(df)
    /\ \A c \in DOMAIN df : result[c].columns = df[c].name

C22_WitnessNoRow ==
    /\ IsNoneSum
    /\ Len(df) = 2 /\ df[1].cells = <<>>
    /\ result[1].noneSum = NaN

----
IsCheckList == call.fn = "checkListTypeAndConvert"

\* A step that calls checkListTypeAndConvert with the given flag.
CheckListStep(convertColumnList) ==
    /\ call = Idle
    /\ call'.fn = "checkListTypeAndConvert"
    /\ call'.convertColumnList = convertColumnList

\* Column c of the table has a non-null value and the first one is a list or
\* a tuple.
Detected(table, c) ==
    \E j \in DOMAIN table[c].cells :
        /\ table[c].cells[j].type \in {"list", "tuple"}
        /\ \A i \in 1..(j - 1) : table[c].cells[i] = Null

DetectedColumns(table) == {c \in DOMAIN table : Detected(table, c)}

\* The list names the columns S of the table, in column order.
NamesInColumnOrder(list, table, S) ==
    /\ Len(list) = Cardinality(S)
    /\ \A k \in DOMAIN list :
           \E c \in S : /\ Cardinality({b \in S : b < c}) = k - 1
                         /\ list[k] = table[c].name

\* C23: checkListTypeAndConvert with convertColumnList=False returns, in
\* column order, exactly the names of the columns whose first non-null value
\* is a list or a tuple (an empty or entirely null column is never reported),
\* and leaves the DataFrame unchanged.
C23_DetectOnly ==
    [][CheckListStep(FALSE) =>
          /\ NamesInColumnOrder(result', df, DetectedColumns(df))
          /\ \A k \in DOMAIN result' :
                 \A c \in DOMAIN df :
                     (df[c].name = result'[k]) =>
                         \E j \in DOMAIN df[c].cells : df[c].cells[j] # Null
          /\ df' = df]_vars

\* A column starting with a number and holding a list is not reported, a
\* column whose first non-null value is a tuple is.
C23_Witness ==
    /\ IsCheckList /\ ~call.convertColumnList
    /\ Len(df) = 2
    /\ Len(df[1].cells) = 2
    /\ df[1].cells[1].type = "int" /\ df[1].cells[2].type = "list"
    /\ df[2].cells[1] = Null /\ df[2].cells[2].type = "tuple"
    /\ result = <<"col2">>

\* Both columns reported, in column order.
C23_WitnessBoth ==
    /\ IsCheckList /\ ~call.convertColumnList
    /\ result = <<"col1", "col2">>

\* The cell is the text of the value it was.
IsTextOf(cell, was) == cell = [type |-> "str", text |-> was.text]

\* C24: checkListTypeAndConvert with convertColumnList=True converts every
\* detected list/tuple column to strings in place, leaves all other columns
\* unchanged, and returns an empty list; a second call on the converted
\* DataFrame detects no column.
C24_ConvertInPlace ==
    [][CheckListStep(TRUE) =>
          /\ DOMAIN df' = DOMAIN df
          /\ \A c \in DOMAIN df :
                 /\ df'[c].name = df[c].name
                 /\ DOMAIN df'[c].cells = DOMAIN df[c].cells
                 /\ Detected(df, c) =>
                        \A j \in DOMAIN df[c].cells :
                            \/ IsTextOf(df'[c].cells[j], df[c].cells[j])
                            \/ df[c].cells[j] = Null /\ df'[c].cells[j] = Null
                 /\ ~Detected(df, c) => df'[c] = df[c]
          /\ result' = <<>>
          /\ DetectedColumns(df') = {}
          /\ \A again, naAsText \in BOOLEAN :
                 LET second == checkListTypeAndConvert(df', again, naAsText)
                 IN  second.result = <<>> /\ second.df = df']_vars

\* A converted list column beside a column of numbers.
C24_Witness ==
    /\ IsCheckList /\ call.convertColumnList
    /\ Len(df) = 2
    /\ df[1].cells = <<[type |-> "str", text |-> "[1, 2]"], [type |-> "str", text |-> "(1, 2)"]>>
    /\ df[2].cells = <<[type |-> "int", text |-> "10"], [type |-> "int", text |-> "10"]>>
    /\ result = <<>>

----
\* C25: makeDfTrendData is total over its selection argument: for every list
\* selectedItems, the empty list included, it returns a table of
\* 12 * len(selectedItems) rows (an empty table for an empty selection) and
\* never raises.
C25_TotalOverSelection ==
    IsTrend =>
        /\ ~raised
        /\ Len(result) = MonthsInYear * Len(call.selectedItems)
        /\ call.selectedItems = <<>> => result = <<>>

\* The part of C25 that holds: every selection of at least one item.
C25_TotalOverNonEmptySelection ==
    (IsTrend /\ call.selectedItems # <<>>) =>
        ~raised /\ Len(result) = MonthsInYear * Len(call.selectedItems)

\* The call with the empty selection: it raises.
C25_EmptySelectionRaises ==
    IsTrend /\ call.selectedItems = <<>> /\ raised

----
\* Slice rows of an item that fall in month m.
MonthRowsOf(item, m) == {i \in SliceRowsOf(item) : df[i].month = m}

\* C26: for every item in selectedItems and every month m in 1..12, the
\* count of the (item, m) row returned by makeDfTrendData equals the number
\* of slice rows with columnName = item and month = m, and is 0 exactly when
\* there is no such row.
C26_MonthCounts ==
    IsTrend =>
        \A item \in SelectedSet : \A m \in 1..MonthsInYear :
            /\ \E j \in DOMAIN result : result[j].item = item /\ result[j].month = m
            /\ \A j \in DOMAIN result :
                   (result[j].item = item /\ result[j].month = m) =>
                       /\ result[j].count = Cardinality(MonthRowsOf(item, m))
                       /\ result[j].count = 0 <=> MonthRowsOf(item, m) = {}

\* A has two slice rows in January and none in December, B has none; a row
\* outside the slice is not counted.
C26_Witness ==
    /\ IsTrend
    /\ call.selectedItems = <<"A", "B">>
    /\ Cardinality(MonthRowsOf("A", 1)) = 2
    /\ MonthRowsOf("A", MonthsInYear) = {}
    /\ SliceRowsOf("B") = {}
    /\ Cardinality(CallSlice) < Len(df)
    /\ result[1].count = 2 /\ result[MonthsInYear].count = 0
    /\ result[MonthsInYear + 1].count = 0

----
\* Every row of the table has the filter value v in the filter column.
AllRowsHave(filterColumn, v) == \A i \in DOMAIN df : df[i][filterColumn] = v

\* The three series of the computeSalesMetricsForYear call the page holds
\* are the count series computeSalesMetrics returns for the same table,
\* column, year, head and n with the filter (filterColumn, v).
AgreesWithMetrics(filterColumn, v) ==
    LET full == computeSalesMetrics(df, call.columnName, filterColumn, v,
                                    call.selectedYears, call.head, call.n)
    IN  /\ result.dimensionCounts = full.productCategoryCounts
        /\ result.salesKiloTop = full.salesKiloTop
        /\ result.salesUnitTop = full.salesUnitTop

\* C27: computeSalesMetricsForYear and computeSalesMetrics agree on the count
\* series: on a table in which every row has filterColumn = filterValue, for
\* any year, head and n, the three series of the first equal the counts,
\* kiloCounts and unitCounts of the second.
C27_CountsAgree ==
    IsForYear =>
        \A v \in Currencies :
            AllRowsHave("proof_currency", v) => AgreesWithMetrics("proof_currency", v)

\* The part of C27 that holds: the calls that name a year.
C27_CountsAgreeOnGivenYear ==
    (IsForYear /\ call.selectedYears # None) =>
        \A v \in Currencies :
            AllRowsHave("proof_currency", v) => AgreesWithMetrics("proof_currency", v)

\* A call that names a year on a table of EUR rows of both years, truncated
\* to its first value.
C27_GivenYearCase ==
    /\ IsForYear /\ call.selectedYears = Some(2024)
    /\ call.head /\ call.n = Some(1)
    /\ AllRowsHave("proof_currency", "EUR")
    /\ Len(df) = 3 /\ Cardinality(CallSlice) = 2
    /\ Len(result.dimensionCounts) = 1

\* A call for all years on a table of EUR rows: the counts differ.
C27_AllYearsCase ==
    /\ IsForYear /\ call.selectedYears = None
    /\ AllRowsHave("proof_currency", "EUR")
    /\ df # <<>>
    /\ ~AgreesWithMetrics("proof_currency", "EUR")

----
\* The items of the trend table the page built.
TrendItems == {Built[j].item : j \in DOMAIN Built}

\* The rows of the trend table of one item.
TrendOf(item) == SelectSeq(Built, LAMBDA r : r.item = item)

\* C28: an item taken from the output of filterItemsByMinSales and passed to
\* makeDfTrendData with the same table, filterOn, columnName, value and year
\* has 12 trend counts that sum to at least minSales, at least minMonths of
\* them non-zero.
C28_PipelineConsistency ==
    (IsActivity /\ dfTop # None) =>
        /\ ~raised
        /\ TrendItems \subseteq ReturnedValues
        /\ \A item \in TrendItems :
               /\ Len(TrendOf(item)) = MonthsInYear
               /\ SumCounts(TrendOf(item)) >= call.minSales
               /\ Cardinality({j \in DOMAIN TrendOf(item) : TrendOf(item)[j].count # 0})
                      >= call.minMonths

\* minSales = 3, minMonths = 2: the item kept has three rows over two months.
C28_Witness ==
    /\ IsActivity /\ dfTop # None
    /\ call.minSales = 3 /\ call.minMonths = 2
    /\ TrendItems = {"A"}
    /\ SumCounts(TrendOf("A")) = 3
    /\ Cardinality({j \in DOMAIN TrendOf("A") : TrendOf("A")[j].count # 0}) = 2

\* Two items kept and both selected, beside a row the filter dropped.
C28_WitnessTwoItems ==
    /\ IsActivity /\ dfTop # None
    /\ call.minSales = 1 /\ call.minMonths = 1
    /\ TrendItems = {"A", "B"}
    /\ Len(result) < Len(df)

----
\* C29: for every dimension value v returned by computeSalesMetrics or
\* computeSalesMetricsForYear, kiloCount[v] + unitCount[v] <= counts[v], with
\* equality whenever every slice row of v has price_per KILOGRAM or UNIT; the
\* three counts are non-negative integers.
C29_PartitionCounts ==
    (IsMetrics \/ IsForYear) =>
        \A k \in DOMAIN RankedCounts :
            LET v == RankedCounts[k].label
                total == RankedCounts[k].value
                kilo == result.salesKiloTop[k].value
                unit == result.salesUnitTop[k].value
            IN  /\ result.salesKiloTop[k].label = v /\ result.salesUnitTop[k].label = v
                /\ total \in Nat /\ kilo \in Nat /\ unit \in Nat
                /\ kilo + unit <= total
                /\ (\A i \in SliceRowsOf(v) : df[i].price_per \in {"KILOGRAM", "UNIT"})
                       => kilo + unit = total

\* A with a kilogram, a unit and another kind of row: 1 + 1 < 3.
C29_Witness ==
    /\ IsMetrics \/ IsForYear
    /\ Len(RankedCounts) = 1
    /\ RankedCounts[1].label = "A" /\ RankedCounts[1].value = 3
    /\ result.salesKiloTop[1].value = 1 /\ result.salesUnitTop[1].value = 1

\* A with kilogram and unit rows only: 2 + 1 = 3.
C29_WitnessEqual ==
    /\ IsMetrics \/ IsForYear
    /\ Len(RankedCounts) = 1
    /\ RankedCounts[1].value = 3
    /\ result.salesKiloTop[1].value = 2 /\ result.salesUnitTop[1].value = 1

----
\* Every series of the call the page holds, the ranked counts first.
HeldSeries == <<RankedCounts>> \o OtherSeries

\* The same series of the head=False call on the same table and filter.
FullSeries ==
    IF IsMetrics
    THEN <<WithoutHead.productCategoryCounts, WithoutHead.salesKiloTop,
           WithoutHead.priceKiloTop, WithoutHead.salesUnitTop,
           WithoutHead.priceUnitTop, WithoutHead.totalPrices>>
    ELSE <<WithoutHead.dimensionCounts, WithoutHead.salesKiloTop, WithoutHead.salesUnitTop>>

\* C30: top-n truncation is a prefix of the full ranking: every series
\* returned with head=True, n=k equals the first min(k, size) entries of the
\* corresponding series returned with head=False, labels, order and values.
C30_TruncationIsPrefix ==
    ((IsMetrics \/ IsForYear) /\ call.head /\ call.n # None) =>
        LET held == HeldSeries
            full == FullSeries
        IN  /\ Len(held) = Len(full)
            /\ \A s \in DOMAIN held :
                   held[s] = SubSeq(full[s], 1, Min(call.n[1], Len(full[s])))

\* Top 1 of a ranking of two values: B with two rows ahead of A, and a mean
\* price among the values kept.
C30_Witness ==
    /\ IsMetrics
    /\ call.head /\ call.n = Some(1)
    /\ WithoutHead.productCategoryCounts
           = <<[label |-> "B", value |-> 2], [label |-> "A", value |-> 1]>>
    /\ Len(RankedCounts) = 1 /\ RankedCounts[1].label = "B"
    /\ result.totalPrices[1].value # Zero
====
